---- MODULE Spec2Model ----
(***************************************************************************)
(* Model of googleTimeline (src/main.go): a location-history export is     *)
(* read, every activity segment's start location is resolved to a country  *)
(* by a reverse-geocoding request, the segment's distance is added to the  *)
(* (country, day) bucket, and the buckets are written to a report file.    *)
(***************************************************************************)
EXTENDS Integers, Sequences, FiniteSets, TLC

VARIABLES
    input,                  \* timeline.json as the file system holds it
    service,                \* the replies the geocoding service can give in this run
    pc,                     \* position of main
    timeline,               \* timeline.TimelineObjects after Unmarshal
    idx,                    \* index of the object the range loop is at
    countryDistancesByDay,  \* country -> date -> kilometres
    requests,               \* the GET requests issued so far, in order
    calls,                  \* per object handled: <<>>, or <<the reply its request got
                            \* and what getCountryCode returned>>
    stdout,                 \* the lines printed so far
    file,                   \* the lines the report file holds
    writeErrors,            \* number of WriteString calls that returned an error
    pending,                \* countries the outer range loop has still to visit
    country,                \* the country the outer range loop is at
    pendingDates,           \* dates the inner range loop has still to visit
    exitCode                \* -1 while running, else the process exit status

vars == <<input, service, pc, timeline, idx, countryDistancesByDay, requests, calls,
          stdout, file, writeErrors, pending, country, pendingDates, exitCode>>

(***************************************************************************)
(* float64 arithmetic.  A float64 of magnitude below 2^16 whose unit in    *)
(* the last place is at least 2^-64 is kept exactly: a sign and the        *)
(* magnitude in units of 2^-64 as four limbs of 20 bits, most significant  *)
(* first.  Every operation computes the exact result and rounds it to 53   *)
(* significant bits, ties to even, as IEEE 754 binary64 does.              *)
(***************************************************************************)
LimbBase == 2 ^ 20

Pow2(n) == 2 ^ n

FZero == [neg |-> FALSE, m |-> <<0, 0, 0, 0>>]

\* Position of the highest set bit of a limb (x > 0).
LimbMsb(x) == CHOOSE i \in 0..30 : Pow2(i) <= x /\ x < Pow2(i + 1)

\* Position of the highest set bit of a magnitude, -1 for zero.
Msb(m) ==
    IF m[1] > 0 THEN 60 + LimbMsb(m[1])
    ELSE IF m[2] > 0 THEN 40 + LimbMsb(m[2])
    ELSE IF m[3] > 0 THEN 20 + LimbMsb(m[3])
    ELSE IF m[4] > 0 THEN LimbMsb(m[4])
    ELSE -1

\* Carry propagation: limbs back into 0..LimbBase-1 (the top limb keeps the rest).
Norm(m) ==
    LET c4 == m[4] \div LimbBase
        t3 == m[3] + c4
        c3 == t3 \div LimbBase
        t2 == m[2] + c3
        c2 == t2 \div LimbBase
    IN  <<m[1] + c2, t2 % LimbBase, t3 % LimbBase, m[4] % LimbBase>>

MagLess(a, b) ==
    \E i \in 1..4 : a[i] < b[i] /\ \A j \in 1..(i - 1) : a[j] = b[j]

\* Round an exact magnitude (plus a sticky flag for discarded lower bits)
\* to 53 significant bits, round half to even.
Round53(m, sticky) ==
    LET p == Msb(m)
        s == p - 52
    IN  IF s <= 0 THEN m
        ELSE
          LET remHi  == IF s > 20 THEN m[3] % Pow2(s - 20) ELSE 0
              remLo  == IF s >= 20 THEN m[4] ELSE m[4] % Pow2(s)
              halfHi == IF s > 20 THEN Pow2(s - 21) ELSE 0
              halfLo == IF s > 20 THEN 0 ELSE Pow2(s - 1)
              above  == remHi > halfHi \/ (remHi = halfHi /\ remLo > halfLo)
              tie    == remHi = halfHi /\ remLo = halfLo
              odd    == IF s < 20 THEN (m[4] \div Pow2(s)) % 2 = 1
                        ELSE IF s = 20 THEN m[3] % 2 = 1
                        ELSE (m[3] \div Pow2(s - 20)) % 2 = 1
              up     == above \/ (tie /\ (sticky \/ odd))
              trunc  == <<m[1], m[2], m[3] - remHi, m[4] - remLo>>
              inc    == IF ~up THEN <<0, 0, 0, 0>>
                        ELSE IF s < 20 THEN <<0, 0, 0, Pow2(s)>>
                        ELSE <<0, 0, Pow2(s - 20), 0>>
          IN  Norm(<<trunc[1] + inc[1], trunc[2] + inc[2],
                     trunc[3] + inc[3], trunc[4] + inc[4]>>)

MkFloat(neg, m) == [neg |-> (neg /\ m # <<0, 0, 0, 0>>), m |-> m]

FNeg(a) == MkFloat(~a.neg, a.m)

\* |a| - |b| for |a| >= |b|, exact.
MagSub(a, b) ==
    LET d4 == a[4] - b[4]
        b4 == IF d4 < 0 THEN 1 ELSE 0
        d3 == a[3] - b[3] - b4
        b3 == IF d3 < 0 THEN 1 ELSE 0
        d2 == a[2] - b[2] - b3
        b2 == IF d2 < 0 THEN 1 ELSE 0
    IN  <<a[1] - b[1] - b2, d2 + b2 * LimbBase, d3 + b3 * LimbBase, d4 + b4 * LimbBase>>

\* float64 addition (the += of line 131).
FAdd(a, b) ==
    IF a.neg = b.neg
    THEN MkFloat(a.neg, Round53(Norm(<<a.m[1] + b.m[1], a.m[2] + b.m[2],
                                      a.m[3] + b.m[3], a.m[4] + b.m[4]>>), FALSE))
    ELSE IF MagLess(a.m, b.m)
         THEN MkFloat(b.neg, Round53(MagSub(b.m, a.m), FALSE))
         ELSE MkFloat(a.neg, Round53(MagSub(a.m, b.m), FALSE))

Abs(n) == IF n < 0 THEN -n ELSE n

\* float64(distance) / 1000.0 (line 131): the quotient by long division to
\* 64 fraction bits, the remainder as the sticky flag, then one rounding.
DistanceKm(distance) ==
    LET n  == Abs(distance)
        ip == n \div 1000
        r0 == n % 1000
        t3 == r0 * 16
        t2 == (t3 % 1000) * LimbBase
        t1 == (t2 % 1000) * LimbBase
        t0 == (t1 % 1000) * LimbBase
    IN  MkFloat(distance < 0,
                Round53(<<ip * 16 + t3 \div 1000, t2 \div 1000, t1 \div 1000, t0 \div 1000>>,
                        t0 % 1000 # 0))

\* Printf("%.2f"): the exact binary value rounded half to even to hundredths.
Fmt2(a) ==
    LET h   == <<a.m[1] * 100, a.m[2] * 100, a.m[3] * 100, a.m[4] * 100>>
        n   == Norm(h)
        q   == n[1] \div 16
        rHi == n[1] % 16
        above == rHi > 8 \/ (rHi = 8 /\ (n[2] > 0 \/ n[3] > 0 \/ n[4] > 0))
        tie   == rHi = 8 /\ n[2] = 0 /\ n[3] = 0 /\ n[4] = 0
        c   == IF above \/ (tie /\ q % 2 = 1) THEN q + 1 ELSE q
    IN  [neg |-> a.neg, whole |-> c \div 100, cents |-> c % 100]

(***************************************************************************)
(* Input data: Location, ActivitySegment, TimelineObject (lines 14-34).    *)
(* A nil *ActivitySegment is the empty sequence, a set pointer a sequence  *)
(* of one segment.  A startTimestamp string is kept as its fields.         *)
(***************************************************************************)
Location(lat, lng) == [LatitudeE7 |-> lat, LongitudeE7 |-> lng]

Timestamp(date, sep, clock, zone) == [date |-> date, sep |-> sep, clock |-> clock, zone |-> zone]

ZoneZ == [kind |-> "Z", sign |-> 1, hh |-> 0, mm |-> 0]

ZoneOffset(sign, hh, mm) == [kind |-> "offset", sign |-> sign, hh |-> hh, mm |-> mm]

ZoneNone == [kind |-> "none", sign |-> 1, hh |-> 0, mm |-> 0]

ActivitySegment(loc, distance, ts) ==
    [StartLocation |-> loc, Distance |-> distance, StartTimestamp |-> ts]

TimelineObject(segment) == [ActivitySegment |-> segment]

\* Helper function to convert E7 lat/lng to float64 (lines 37-39).  The
\* quotient is kept as the decimal it is the nearest float64 of: sign, whole
\* degrees and seven fraction digits.  The coordinates used here end in 0,
\* so the float64 rounding cannot change the six digits %f prints.
toFloatCoord(coordE7) ==
    [neg |-> coordE7 < 0, whole |-> Abs(coordE7) \div 10000000, frac7 |-> Abs(coordE7) % 10000000]

\* fmt.Sprintf("%f", x): six fraction digits, rounded to nearest.
FormatF(x) ==
    LET micro == x.whole * 1000000 + (x.frac7 + 5) \div 10
    IN  [neg |-> x.neg /\ micro > 0, whole |-> micro \div 1000000, frac6 |-> micro % 1000000]

(***************************************************************************)
(* time.Parse(time.RFC3339, s) and Time.Format("2006-01-02") (lines 118,   *)
(* 123).  The calendar is the year 2024; an instant is the number of       *)
(* seconds since 2024-01-01T00:00:00Z.                                     *)
(***************************************************************************)
DaysBefore == <<0, 31, 60, 91, 121, 152, 182, 213, 244, 274, 305, 335, 366>>

DaysIn(month) == DaysBefore[month + 1] - DaysBefore[month]

\* The offset in seconds east of UTC a zone field denotes.
ZoneSeconds(zone) == zone.sign * (zone.hh * 3600 + zone.mm * 60)

\* Whether the string matches the layout 2006-01-02T15:04:05Z07:00 with
\* every field in range.
MatchesRFC3339(ts) ==
    /\ ts.sep = "T"
    /\ ts.zone.kind \in {"Z", "offset"}
    /\ ts.date[1] = 2024
    /\ ts.date[2] \in 1..12
    /\ ts.date[3] >= 1
    /\ ts.date[3] <= DaysIn(ts.date[2])
    /\ ts.clock[1] \in 0..23
    /\ ts.clock[2] \in 0..59
    /\ ts.clock[3] \in 0..59
    /\ ts.zone.hh \in 0..23
    /\ ts.zone.mm \in 0..59

\* time.Parse: the instant is the written wall clock minus the written
\* offset.  Z gives UTC; an offset equal to the one the machine's local zone
\* has at that instant gives Local, any other a fixed zone of that offset.
ParseTime(ts, localOffset) ==
    IF ~MatchesRFC3339(ts)
    THEN [ok |-> FALSE, sec |-> 0, loc |-> [name |-> "UTC", offset |-> 0], Value |-> ts]
    ELSE LET wall == (DaysBefore[ts.date[2]] + ts.date[3] - 1) * 86400
                     + ts.clock[1] * 3600 + ts.clock[2] * 60 + ts.clock[3]
             off  == ZoneSeconds(ts.zone)
         IN  [ok    |-> TRUE,
              sec   |-> wall - off,
              loc   |-> IF ts.zone.kind = "Z" THEN [name |-> "UTC", offset |-> 0]
                        ELSE IF off = localOffset THEN [name |-> "Local", offset |-> localOffset]
                        ELSE [name |-> "", offset |-> off],
              Value |-> ts]

\* FormatDate after a conversion to UTC.
FormatDateUTC(t) ==
    LET day   == t.sec \div 86400
        month == CHOOSE mo \in 1..12 : DaysBefore[mo] <= day /\ day < DaysBefore[mo + 1]
    IN  <<2024, month, day - DaysBefore[month] + 1>>

\* Time.Format("2006-01-02"): the date of the instant in the Time's location.
FormatDate(t) ==
    LET day   == (t.sec + t.loc.offset) \div 86400
        month == CHOOSE mo \in 1..12 : DaysBefore[mo] <= day /\ day < DaysBefore[mo + 1]
    IN  <<2024, month, day - DaysBefore[month] + 1>>

(***************************************************************************)
(* getCountryCode (lines 42-82).  A reply of the service is the outcome of *)
(* client.Get (transport), whether the body decodes as JSON, and the       *)
(* address.country_code it carries ("" when the field is missing).         *)
(***************************************************************************)
Reply(transport, json, code) == [transport |-> transport, json |-> json, country_code |-> code]

\* The query of lines 50-55.
Request(lat, lng) ==
    [lat |-> FormatF(lat), lon |-> FormatF(lng), format |-> "json", zoom |-> "3"]

\* getCountryCode without the check of line 77.
getCountryCodeUnchecked(lat, lng, reply) ==
    IF reply.transport # "ok" THEN [code |-> "", err |-> "transport"]
    ELSE IF ~reply.json THEN [code |-> "", err |-> "decode"]
    ELSE [code |-> reply.country_code, err |-> "nil"]

getCountryCode(lat, lng, reply) ==
    IF reply.transport # "ok" THEN [code |-> "", err |-> "transport"]
    ELSE IF ~reply.json THEN [code |-> "", err |-> "decode"]
    ELSE IF reply.country_code # "" THEN [code |-> reply.country_code, err |-> "nil"]
    ELSE [code |-> "", err |-> "no country found"]

(***************************************************************************)
(* The body of the range loop for one activity segment (lines 107-131).    *)
(***************************************************************************)
\* AddDistance with the inner map made anew on every call.
AddDistanceRemake(m, c, date, distance) ==
    [k \in (DOMAIN m) \cup {c} |->
        IF k = c THEN [d \in {date} |-> DistanceKm(distance)] ELSE m[k]]

\* AddDistance with = in place of +=.
AddDistanceAssign(m, c, date, distance) ==
    LET inner == IF c \in DOMAIN m THEN m[c] ELSE <<>>
        new   == [d \in (DOMAIN inner) \cup {date} |->
                     IF d = date THEN DistanceKm(distance) ELSE inner[d]]
    IN  [k \in (DOMAIN m) \cup {c} |-> IF k = c THEN new ELSE m[k]]

\* Lines 126-131: the inner map is made on first use, then +=.
AddDistance(m, c, date, distance) ==
    LET inner == IF c \in DOMAIN m THEN m[c] ELSE <<>>
        old   == IF date \in DOMAIN inner THEN inner[date] ELSE FZero
        new   == [d \in (DOMAIN inner) \cup {date} |->
                     IF d = date THEN FAdd(old, DistanceKm(distance)) ELSE inner[d]]
    IN  [k \in (DOMAIN m) \cup {c} |-> IF k = c THEN new ELSE m[k]]

\* Iteration with the timestamp failure not printed.
IterationSilentSkip(m, seg, reply, localOffset) ==
    LET startLat == toFloatCoord(seg.StartLocation.LatitudeE7)
        startLng == toFloatCoord(seg.StartLocation.LongitudeE7)
        res      == getCountryCode(startLat, startLng, reply)
        t        == ParseTime(seg.StartTimestamp, localOffset)
    IN  IF res.err # "nil"
        THEN [map |-> m, res |-> res,
              out |-> <<[kind |-> "Error getting country", lat |-> FormatF(startLat),
                         lng |-> FormatF(startLng), err |-> res.err]>>]
        ELSE IF ~t.ok
        THEN [map |-> m, res |-> res, out |-> <<>>]
        ELSE [map |-> AddDistance(m, res.code, FormatDate(t), seg.Distance), res |-> res,
              out |-> <<>>]

\* Iteration with the inner map made before the timestamp is parsed.
IterationEagerInit(m, seg, reply, localOffset) ==
    LET startLat == toFloatCoord(seg.StartLocation.LatitudeE7)
        startLng == toFloatCoord(seg.StartLocation.LongitudeE7)
        res      == getCountryCode(startLat, startLng, reply)
        t        == ParseTime(seg.StartTimestamp, localOffset)
        made     == [k \in (DOMAIN m) \cup {res.code} |-> IF k \in DOMAIN m THEN m[k] ELSE <<>>]
    IN  IF res.err # "nil"
        THEN [map |-> m, res |-> res,
              out |-> <<[kind |-> "Error getting country", lat |-> FormatF(startLat),
                         lng |-> FormatF(startLng), err |-> res.err]>>]
        ELSE IF ~t.ok
        THEN [map |-> made, res |-> res,
              out |-> <<[kind |-> "Error parsing startTimestamp", Value |-> t.Value]>>]
        ELSE [map |-> AddDistance(made, res.code, FormatDate(t), seg.Distance), res |-> res,
              out |-> <<>>]

\* One iteration: the map after it, the line it prints, if any, and what
\* getCountryCode returned.
Iteration(m, seg, reply, localOffset) ==
    LET startLat == toFloatCoord(seg.StartLocation.LatitudeE7)
        startLng == toFloatCoord(seg.StartLocation.LongitudeE7)
        res      == getCountryCode(startLat, startLng, reply)
        t        == ParseTime(seg.StartTimestamp, localOffset)
    IN  IF res.err # "nil"
        THEN [map |-> m, res |-> res,
              out |-> <<[kind |-> "Error getting country", lat |-> FormatF(startLat),
                         lng |-> FormatF(startLng), err |-> res.err]>>]
        ELSE IF ~t.ok
        THEN [map |-> m, res |-> res,
              out |-> <<[kind |-> "Error parsing startTimestamp", Value |-> t.Value]>>]
        ELSE [map |-> AddDistance(m, res.code, FormatDate(t), seg.Distance), res |-> res,
              out |-> <<>>]

(***************************************************************************)
(* The report lines (lines 148-152) and a WriteString whose error main     *)
(* does not look at: a failed write leaves the file as it was.             *)
(***************************************************************************)
HeaderLine == [kind |-> "header"]

CountryLine(c) == [kind |-> "Country", country |-> c]

DateLine(date, distance) == [kind |-> "date", date |-> date, km |-> Fmt2(distance)]

WriteString(f, line, ok) == IF ok THEN Append(f, line) ELSE f

(***************************************************************************)
(* Inputs and environment.                                                 *)
(***************************************************************************)
MaxObjs == 2

MaxSumObjs == 3

MaxWriteFaults == 1

LocNewYork == Location(400000000, -740000000)

LocParis == Location(488566000, 23522000)

TsLate == Timestamp(<<2024, 3, 1>>, "T", <<23, 30, 0>>, ZoneOffset(-1, 5, 0))

TsZulu == Timestamp(<<2024, 3, 2>>, "T", <<4, 30, 0>>, ZoneZ)

TsBad == Timestamp(<<2024, 3, 1>>, " ", <<10, 0, 0>>, ZoneNone)

NoSegment == TimelineObject(<<>>)

Segment(loc, distance, ts) == TimelineObject(<<ActivitySegment(loc, distance, ts)>>)

\* Objects of the general runs: two places, two dates that are one instant,
\* a timestamp that does not parse.
Objects ==
    { NoSegment,
      Segment(LocNewYork, 5000, TsLate),
      Segment(LocParis, 3000, TsZulu),
      Segment(LocParis, -2500, TsLate),
      Segment(LocNewYork, 1200, TsBad) }

\* Objects of the summation runs: one date, distances whose kilometre values
\* are not exact in binary, a negative distance, a place met several times.
SumObjects ==
    { NoSegment,
      Segment(LocNewYork, 100, TsLate),
      Segment(LocNewYork, 200, TsLate),
      Segment(LocParis, 300, TsLate),
      Segment(LocNewYork, -100, TsLate),
      Segment(LocNewYork, 300, TsBad) }

Replies ==
    { Reply("error", FALSE, ""),
      Reply("ok", FALSE, ""),
      Reply("ok", TRUE, ""),
      Reply("ok", TRUE, "fr"),
      Reply("ok", TRUE, "us") }

SumReplies == { Reply("ok", TRUE, ""), Reply("ok", TRUE, "us") }

\* Offsets of the machine's local zone, seconds east of UTC.
LocalOffsets == {-18000, 0, 3600}

SeqsUpTo(S, n) == UNION {[1..k -> S] : k \in 0..n}

Inputs(objs, n) ==
    { [readable |-> FALSE, json |-> FALSE, doc |-> <<>>],
      [readable |-> TRUE, json |-> FALSE, doc |-> <<>>] }
    \cup { [readable |-> TRUE, json |-> TRUE, doc |-> d] : d \in SeqsUpTo(objs, n) }

Start ==
    /\ pc = "read"
    /\ timeline = <<>>
    /\ idx = 1
    /\ countryDistancesByDay = <<>>
    /\ requests = <<>>
    /\ calls = <<>>
    /\ stdout = <<>>
    /\ file = <<>>
    /\ writeErrors = 0
    /\ pending = {}
    /\ country = ""
    /\ pendingDates = {}
    /\ exitCode = -1

Init ==
    /\ input \in Inputs(Objects, MaxObjs)
    /\ service = Replies
    /\ Start

InitSum ==
    /\ input \in Inputs(SumObjects, MaxSumObjs)
    /\ service = SumReplies
    /\ Start

(***************************************************************************)
(* main (lines 84-157).                                                    *)
(***************************************************************************)
\* os.Exit(1) after printing msg.
Fatal(msg) ==
    /\ stdout' = Append(stdout, [kind |-> msg])
    /\ exitCode' = 1
    /\ pc' = "exit"

\* Lines 86-91.
ReadFile ==
    /\ pc = "read"
    /\ IF input.readable
       THEN pc' = "parse" /\ UNCHANGED <<stdout, exitCode>>
       ELSE Fatal("Error reading JSON file")
    /\ UNCHANGED <<input, service, timeline, idx, countryDistancesByDay, requests, calls,
                   file, writeErrors, pending, country, pendingDates>>

\* Lines 94-102.
Unmarshal ==
    /\ pc = "parse"
    /\ IF input.json
       THEN /\ timeline' = input.doc
            /\ pc' = "loop"
            /\ UNCHANGED <<stdout, exitCode>>
       ELSE /\ Fatal("Error parsing JSON file")
            /\ UNCHANGED timeline
    /\ UNCHANGED <<input, service, idx, countryDistancesByDay, requests, calls,
                   file, writeErrors, pending, country, pendingDates>>

\* Lines 105-106: an object without an activitySegment.
SkipObject ==
    /\ pc = "loop"
    /\ idx <= Len(timeline)
    /\ timeline[idx].ActivitySegment = <<>>
    /\ idx' = idx + 1
    /\ calls' = Append(calls, <<>>)
    /\ UNCHANGED <<input, service, pc, timeline, countryDistancesByDay, requests, stdout,
                   file, writeErrors, pending, country, pendingDates, exitCode>>

\* SendRequest with no request for coordinates already asked about.
SendRequestCached ==
    /\ pc = "loop"
    /\ idx <= Len(timeline)
    /\ timeline[idx].ActivitySegment # <<>>
    /\ LET seg == timeline[idx].ActivitySegment[1]
           req == Request(toFloatCoord(seg.StartLocation.LatitudeE7),
                          toFloatCoord(seg.StartLocation.LongitudeE7))
       IN  requests' = IF \E k \in 1..Len(requests) : requests[k] = req
                       THEN requests
                       ELSE Append(requests, req)
    /\ pc' = "await"
    /\ UNCHANGED <<input, service, timeline, idx, countryDistancesByDay, calls, stdout,
                   file, writeErrors, pending, country, pendingDates, exitCode>>

\* Lines 106-111 and 50-59: the request of getCountryCode goes out.
SendRequest ==
    /\ pc = "loop"
    /\ idx <= Len(timeline)
    /\ timeline[idx].ActivitySegment # <<>>
    /\ LET seg == timeline[idx].ActivitySegment[1]
       IN  requests' = Append(requests,
                              Request(toFloatCoord(seg.StartLocation.LatitudeE7),
                                      toFloatCoord(seg.StartLocation.LongitudeE7)))
    /\ pc' = "await"
    /\ UNCHANGED <<input, service, timeline, idx, countryDistancesByDay, calls, stdout,
                   file, writeErrors, pending, country, pendingDates, exitCode>>

\* Lines 59-82 and 111-132: the reply comes back and the iteration ends.
Receive ==
    /\ pc = "await"
    /\ \E reply \in service, localOffset \in LocalOffsets :
          LET it == Iteration(countryDistancesByDay, timeline[idx].ActivitySegment[1],
                              reply, localOffset)
          IN  /\ countryDistancesByDay' = it.map
              /\ stdout' = stdout \o it.out
              /\ calls' = Append(calls, <<[reply |-> reply, code |-> it.res.code,
                                            err |-> it.res.err]>>)
    /\ idx' = idx + 1
    /\ pc' = "loop"
    /\ UNCHANGED <<input, service, timeline, requests, file, writeErrors, pending, country,
                   pendingDates, exitCode>>

\* Lines 136-145: os.Create.
CreateFile ==
    /\ pc = "loop"
    /\ idx > Len(timeline)
    /\ \E ok \in BOOLEAN :
          IF ok
          THEN pc' = "header" /\ UNCHANGED <<stdout, exitCode>>
          ELSE Fatal("Error creating output file")
    /\ UNCHANGED <<input, service, timeline, idx, countryDistancesByDay, requests, calls,
                   file, writeErrors, pending, country, pendingDates>>

\* The outcomes a WriteString can have: it may fail while faults remain.
WriteOutcomes == IF writeErrors < MaxWriteFaults THEN {TRUE, FALSE} ELSE {TRUE}

\* A WriteString of line, its error dropped.
Write(line) ==
    \E ok \in WriteOutcomes :
       /\ file' = WriteString(file, line, ok)
       /\ writeErrors' = IF ok THEN writeErrors ELSE writeErrors + 1

\* Line 148.
WriteHeader ==
    /\ pc = "header"
    /\ Write(HeaderLine)
    /\ pending' = DOMAIN countryDistancesByDay
    /\ pc' = "countries"
    /\ UNCHANGED <<input, service, timeline, idx, countryDistancesByDay, requests, calls,
                   stdout, country, pendingDates, exitCode>>

\* Lines 149-150: range over the map yields the keys in any order.
WriteCountry ==
    /\ pc = "countries"
    /\ \E c \in pending :
          /\ Write(CountryLine(c))
          /\ country' = c
          /\ pending' = pending \ {c}
          /\ pendingDates' = DOMAIN countryDistancesByDay[c]
          /\ pc' = IF DOMAIN countryDistancesByDay[c] = {} THEN "countries" ELSE "dates"
    /\ UNCHANGED <<input, service, timeline, idx, countryDistancesByDay, requests, calls,
                   stdout, exitCode>>

\* Lines 151-153.
WriteDate ==
    /\ pc = "dates"
    /\ \E date \in pendingDates :
          /\ Write(DateLine(date, countryDistancesByDay[country][date]))
          /\ pendingDates' = pendingDates \ {date}
          /\ pc' = IF pendingDates = {date} THEN "countries" ELSE "dates"
    /\ UNCHANGED <<input, service, timeline, idx, countryDistancesByDay, requests, calls,
                   stdout, pending, country, exitCode>>

\* Lines 156-157: the success message, then main returns.
Finish ==
    /\ pc = "countries"
    /\ pending = {}
    /\ stdout' = Append(stdout, [kind |-> "Distance report saved"])
    /\ exitCode' = 0
    /\ pc' = "done"
    /\ UNCHANGED <<input, service, timeline, idx, countryDistancesByDay, requests, calls,
                   file, writeErrors, pending, country, pendingDates>>

Next ==
    \/ ReadFile
    \/ Unmarshal
    \/ SkipObject
    \/ SendRequest
    \/ Receive
    \/ CreateFile
    \/ WriteHeader
    \/ WriteCountry
    \/ WriteDate
    \/ Finish

Spec == Init /\ [][Next]_vars

SpecSum == InitSum /\ [][Next]_vars

(***************************************************************************)
(* Properties.  They read the inputs as written (the reply a request got,  *)
(* the fields of a timestamp), not the values main derived from them.      *)
(***************************************************************************)
Handled == Len(calls)

IsSeg(i) == timeline[i].ActivitySegment # <<>>

SegAt(i) == timeline[i].ActivitySegment[1]

ReplyAt(i) == calls[i][1].reply

ReplySucceeded(r) == r.transport = "ok" /\ r.json /\ r.country_code # ""

HasBucket(c, d) ==
    c \in DOMAIN countryDistancesByDay /\ d \in DOMAIN countryDistancesByDay[c]

\* Object i is a handled segment resolved to country c whose timestamp is
\* written with date d.
Counted(i, c, d) ==
    /\ i \in 1..Handled
    /\ IsSeg(i)
    /\ ReplySucceeded(ReplyAt(i))
    /\ ReplyAt(i).country_code = c
    /\ MatchesRFC3339(SegAt(i).StartTimestamp)
    /\ SegAt(i).StartTimestamp.date = d

RECURSIVE SumKm(_, _, _)
\* The float64 sum, in input order, of distance/1000 over the segments
\* among the first n objects that count for (c, d).
SumKm(c, d, n) ==
    IF n = 0 THEN FZero
    ELSE IF Counted(n, c, d) THEN FAdd(SumKm(c, d, n - 1), DistanceKm(SegAt(n).Distance))
    ELSE SumKm(c, d, n - 1)

Codes == {r.country_code : r \in service} \cup DOMAIN countryDistancesByDay

Dates ==
    {timeline[i].ActivitySegment[1].StartTimestamp.date : i \in {j \in 1..Len(timeline) : IsSeg(j)}}
    \cup UNION {DOMAIN countryDistancesByDay[c] : c \in DOMAIN countryDistancesByDay}

\* C1: after every iteration each bucket (c, d) exists exactly when some
\* segment handled so far resolved to c and has written date d, and then
\* holds the sum of distance/1000 over exactly those segments.
C1_BucketIsSumOfMatching ==
    \A c \in Codes, d \in Dates :
        /\ HasBucket(c, d) <=> \E i \in 1..Handled : Counted(i, c, d)
        /\ HasBucket(c, d) => countryDistancesByDay[c][d] = SumKm(c, d, Handled)

C1_Witness ==
    \E c \in Codes, d \in Dates :
        /\ HasBucket(c, d)
        /\ Cardinality({i \in 1..Handled : Counted(i, c, d)}) >= 2
        /\ countryDistancesByDay[c][d] # FZero

\* C2: an iteration whose resolver call fails or whose timestamp does not
\* parse leaves the aggregate map as it was (no value, date key or country
\* key changes) and the loop moves on to the next object.
C2_SkipLeavesMapUnchanged ==
    [][(/\ pc = "await"
        /\ Len(calls') = idx
        /\ \/ ~ReplySucceeded(calls'[idx][1].reply)
           \/ ~MatchesRFC3339(SegAt(idx).StartTimestamp))
       => (/\ countryDistancesByDay' = countryDistancesByDay
           /\ idx' = idx + 1
           /\ pc' = "loop")]_vars

C2_Witness ==
    /\ DOMAIN countryDistancesByDay # {}
    /\ \E i \in 1..Handled :
          /\ IsSeg(i)
          /\ ReplySucceeded(ReplyAt(i))
          /\ ~MatchesRFC3339(SegAt(i).StartTimestamp)
          /\ ReplyAt(i).country_code \notin DOMAIN countryDistancesByDay

\* The range loop of lines 105-133 has handled every object.
LoopDone == pc = "loop" /\ idx > Len(timeline)

Perms(n) == {p \in [1..n -> 1..n] : \A i, j \in 1..n : p[i] = p[j] => i = j}

RECURSIVE MapInOrder(_, _)
\* The aggregate map after the objects p[1], ..., p[k] have been handled in
\* that order, each segment getting the reply it got in this run.
MapInOrder(p, k) ==
    IF k = 0 THEN <<>>
    ELSE LET m == MapInOrder(p, k - 1)
         IN  IF IsSeg(p[k]) THEN Iteration(m, SegAt(p[k]), ReplyAt(p[k]), 0).map ELSE m

\* 10^-9 in units of 2^-64, rounded down.
Tolerance == <<0, 0, 17592, 195081>>

WithinTolerance(a, b) == ~MagLess(Tolerance, FAdd(a, FNeg(b)).m)

SameKeys(m1, m2) ==
    /\ DOMAIN m1 = DOMAIN m2
    /\ \A c \in DOMAIN m1 : DOMAIN m1[c] = DOMAIN m2[c]

\* C3 as stated: handling the objects in any order gives the identical
\* map, totals included.
C3_IdenticalInAnyOrder ==
    LoopDone => \A p \in Perms(Len(timeline)) :
                    MapInOrder(p, Len(timeline)) = countryDistancesByDay

\* C3 as amended: handling the objects in any order gives the same country
\* keys and date keys, and totals within 10^-9 of each other.
C3_SameKeysCloseTotals ==
    LoopDone => \A p \in Perms(Len(timeline)) :
                    LET m == MapInOrder(p, Len(timeline))
                    IN  /\ SameKeys(m, countryDistancesByDay)
                        /\ \A c \in DOMAIN m : \A d \in DOMAIN m[c] :
                              WithinTolerance(m[c][d], countryDistancesByDay[c][d])

C3_Witness ==
    /\ LoopDone
    /\ \E p \in Perms(Len(timeline)) :
          LET m == MapInOrder(p, Len(timeline))
          IN  /\ SameKeys(m, countryDistancesByDay)
              /\ m # countryDistancesByDay

CodeOrder == <<"", "fr", "us">>

CodeRank(c) == CHOOSE k \in 1..Len(CodeOrder) : CodeOrder[k] = c

DateLess(a, b) ==
    \/ a[1] < b[1]
    \/ a[1] = b[1] /\ a[2] < b[2]
    \/ a[1] = b[1] /\ a[2] = b[2] /\ a[3] < b[3]

\* C4: the report's country blocks are in lexicographic order of country
\* code and the date lines of a block in order of date.
C4_ReportSorted ==
    \A i, j \in 1..Len(file) :
        i < j =>
          /\ (file[i].kind = "Country" /\ file[j].kind = "Country")
                => CodeRank(file[i].country) < CodeRank(file[j].country)
          /\ (/\ file[i].kind = "date"
              /\ file[j].kind = "date"
              /\ \A k \in i..j : file[k].kind = "date")
                => DateLess(file[i].date, file[j].date)

CreateFailed == \E k \in 1..Len(stdout) : stdout[k].kind = "Error creating output file"

\* C5: the run ends with a non-zero exit status exactly when the input
\* could not be read or parsed, or the output file could not be created or
\* a write to it failed.
C5_ExitNonZeroIffFatal ==
    pc \in {"done", "exit"} =>
        (exitCode # 0 <=> (~input.readable \/ ~input.json \/ CreateFailed \/ writeErrors > 0))

RECURSIVE ExpectedRequests(_)
\* One request per segment among the first n objects, in their order.
ExpectedRequests(n) ==
    IF n = 0 THEN <<>>
    ELSE IF IsSeg(n)
         THEN Append(ExpectedRequests(n - 1),
                     Request(toFloatCoord(SegAt(n).StartLocation.LatitudeE7),
                             toFloatCoord(SegAt(n).StartLocation.LongitudeE7)))
         ELSE ExpectedRequests(n - 1)

\* C6: the requests issued are exactly one per object carrying an
\* activitySegment, in input order, whatever the earlier replies and
\* coordinates were; a request is in flight only when every earlier object
\* has been handled, and after the loop every object has been handled.
C6_OneRequestPerSegmentInOrder ==
    /\ idx = Handled + 1
    /\ requests = ExpectedRequests(IF pc = "await" THEN idx ELSE Handled)
    /\ \A i \in 1..Handled : (calls[i] # <<>>) <=> IsSeg(i)
    /\ pc \in {"header", "countries", "dates", "done"} => Handled = Len(timeline)

C6_Witness ==
    /\ pc = "done"
    /\ Len(timeline) > Len(requests)
    /\ Len(requests) = 2
    /\ requests[1] = requests[2]
    /\ \E i \in 1..Handled : IsSeg(i) /\ ~ReplySucceeded(ReplyAt(i))
    /\ \E i \in 1..Handled : IsSeg(i) /\ ~MatchesRFC3339(SegAt(i).StartTimestamp)

ErrorLines(kind) == {k \in 1..Len(stdout) : stdout[k].kind = kind}

\* C7: getCountryCode returns a non-empty code with a nil error exactly
\* when the request went through, the body decoded and country_code is not
\* empty, and the empty code with an error otherwise; main prints one
\* "Error getting country" line per failed call.
C7_CodeXorError ==
    /\ \A i \in 1..Handled :
          IsSeg(i) =>
            LET c == calls[i][1]
            IN  /\ ReplySucceeded(c.reply) => (c.code = c.reply.country_code /\ c.err = "nil")
                /\ ~ReplySucceeded(c.reply) => (c.code = "" /\ c.err # "nil")
    /\ Cardinality(ErrorLines("Error getting country"))
         = Cardinality({i \in 1..Handled : IsSeg(i) /\ ~ReplySucceeded(ReplyAt(i))})

C7_Witness ==
    /\ \E i \in 1..Handled :
          IsSeg(i) /\ ReplyAt(i).transport = "ok" /\ ReplyAt(i).json /\ ReplyAt(i).country_code = ""
    /\ \E i \in 1..Handled : IsSeg(i) /\ ReplyAt(i).transport # "ok"

Buckets(m) == UNION {{<<c, d>> : d \in DOMAIN m[c]} : c \in DOMAIN m}

\* C8: a segment that resolves and whose timestamp parses goes to the
\* bucket of the date written in the timestamp, whatever the machine's
\* local zone is, and to no other bucket.
C8_DateKeyIsWrittenDate ==
    [][(/\ pc = "await"
        /\ Len(calls') = idx
        /\ ReplySucceeded(calls'[idx][1].reply)
        /\ MatchesRFC3339(SegAt(idx).StartTimestamp))
       => LET key == <<calls'[idx][1].reply.country_code, SegAt(idx).StartTimestamp.date>>
          IN  /\ Buckets(countryDistancesByDay') = Buckets(countryDistancesByDay) \cup {key}
              /\ \A b \in Buckets(countryDistancesByDay) \ {key} :
                    countryDistancesByDay'[b[1]][b[2]] = countryDistancesByDay[b[1]][b[2]]]_vars

C8_Witness ==
    \E i, j \in 1..Handled, c \in Codes :
        /\ Counted(i, c, <<2024, 3, 1>>)
        /\ Counted(j, c, <<2024, 3, 2>>)
        /\ ParseTime(SegAt(i).StartTimestamp, 0).sec = ParseTime(SegAt(j).StartTimestamp, 0).sec
        /\ HasBucket(c, <<2024, 3, 1>>)
        /\ HasBucket(c, <<2024, 3, 2>>)

\* C9: every bucket value is non-negative in every state of the run.
C9_BucketsNonNegative ==
    \A b \in Buckets(countryDistancesByDay) : ~countryDistancesByDay[b[1]][b[2]].neg

\* The E7 value a printed coordinate denotes.
PrintedE7(f) == (IF f.neg THEN -1 ELSE 1) * (f.whole * 1000000 + f.frac6) * 10

\* A printed coordinate is the E7 value to the six decimals %f prints.
Shows(f, coordE7) == Abs(PrintedE7(f) - coordE7) <= 5

\* C10: an iteration either adds the segment to one bucket and prints
\* nothing, or leaves the map alone and prints exactly one line: the
\* coordinates when the resolver failed (also when the timestamp is bad as
\* well), else the timestamp string that did not parse.
C10_AddedOrAnnounced ==
    [][(pc = "await" /\ Len(calls') = idx)
       => LET seg   == SegAt(idx)
              key   == <<calls'[idx][1].reply.country_code, seg.StartTimestamp.date>>
              added == Buckets(countryDistancesByDay') \ Buckets(countryDistancesByDay)
              moved == {b \in Buckets(countryDistancesByDay) :
                           countryDistancesByDay'[b[1]][b[2]] # countryDistancesByDay[b[1]][b[2]]}
          IN  IF ~ReplySucceeded(calls'[idx][1].reply)
              THEN /\ countryDistancesByDay' = countryDistancesByDay
                   /\ Len(stdout') = Len(stdout) + 1
                   /\ SubSeq(stdout', 1, Len(stdout)) = stdout
                   /\ stdout'[Len(stdout')].kind = "Error getting country"
                   /\ Shows(stdout'[Len(stdout')].lat, seg.StartLocation.LatitudeE7)
                   /\ Shows(stdout'[Len(stdout')].lng, seg.StartLocation.LongitudeE7)
              ELSE IF ~MatchesRFC3339(seg.StartTimestamp)
              THEN /\ countryDistancesByDay' = countryDistancesByDay
                   /\ Len(stdout') = Len(stdout) + 1
                   /\ SubSeq(stdout', 1, Len(stdout)) = stdout
                   /\ stdout'[Len(stdout')].kind = "Error parsing startTimestamp"
                   /\ stdout'[Len(stdout')].Value = seg.StartTimestamp
              ELSE /\ stdout' = stdout
                   /\ Buckets(countryDistancesByDay) \subseteq Buckets(countryDistancesByDay')
                   /\ key \in Buckets(countryDistancesByDay')
                   /\ added \cup moved \subseteq {key}]_vars

C10_Witness ==
    /\ Len(stdout) = 2
    /\ Handled = 2
    /\ stdout[1].kind = "Error getting country"
    /\ IsSeg(1)
    /\ ~MatchesRFC3339(SegAt(1).StartTimestamp)
    /\ stdout[2].kind = "Error parsing startTimestamp"

====
